---- MODULE Spec2Model ----
(***************************************************************************)
(* MediRemind (src/app.py, src/pa.py): a Streamlit script that keeps a     *)
(* JSON document of medications and appointments, validates records,       *)
(* computes the next reminder and builds an iCalendar export.              *)
(*                                                                         *)
(* Text is a sequence of chunks; the chunk " " is whitespace.  A datetime  *)
(* is a number of microseconds since day 0; a schedule string "HH:MM:SS"   *)
(* is its number of seconds since midnight; a date_time string is a record *)
(* saying whether it parses as ISO-8601 and to which datetime.             *)
(***************************************************************************)
EXTENDS Integers, Sequences, FiniteSets, TLC

VARIABLES
    started,    \* the script has run once ('data' in st.session_state)
    page,       \* selected_page of the last run
    data,       \* st.session_state.data
    file,       \* mediremind_data.json
    freq,       \* the st.session_state entries freq_{name}: name -> frequency
    uploaded,   \* the file held by the "Import Data" uploader
    outcome,    \* how the last run of the script ended
    out,        \* what the last run showed: the calendar, the Home summary
    call        \* the last direct call of a function, its arguments and result

vars == <<started, page, data, file, freq, uploaded, outcome, out, call>>

-----------------------------------------------------------------------------
(* Bounds *)

MaxRecords == 2         \* records in the document of a session
MaxMeds == 2            \* medications in a document given to generate_calendar
MaxAppts == 1           \* appointments in a document given to generate_calendar
MaxNameLen == 2         \* chunks in a medication name given to the validator
MaxQty == 2             \* stock figures range over -1..MaxQty
MaxDay == 1             \* calendar dates range over 0..MaxDay
SecondsPerDay == 2      \* seconds in the (shortened) day
MicrosPerSecond == 2    \* microseconds in the (shortened) second

DayMicros == SecondsPerDay * MicrosPerSecond

-----------------------------------------------------------------------------
(* Text, dates and times *)

Whitespace == {" "}

RECURSIVE lstrip(_)
lstrip(s) ==
    IF s # <<>> /\ Head(s) \in Whitespace THEN lstrip(Tail(s)) ELSE s

RECURSIVE rstrip(_)
rstrip(s) ==
    IF s # <<>> /\ s[Len(s)] \in Whitespace
    THEN rstrip(SubSeq(s, 1, Len(s) - 1))
    ELSE s

\* str.strip()
strip(s) == rstrip(lstrip(s))

\* datetime.combine(date, time)
combine(date, time) == date * DayMicros + time

\* datetime.date() and datetime.time()
DateOf(t) == t \div DayMicros
TimeOf(t) == t % DayMicros

\* datetime.strptime(schedule, '%H:%M:%S').time()
strptime(schedule) == schedule * MicrosPerSecond

\* time.strftime('%H:%M:%S')
strftime(time) == time \div MicrosPerSecond

\* datetime.isoformat()
isoformat(t) == [iso |-> TRUE, t |-> t]

\* a string datetime.fromisoformat raises ValueError on
InvalidDateTime == [iso |-> FALSE, t |-> 0]

\* datetime.fromisoformat(s): the datetime, or ValueError raised
fromisoformat(s) == [raised |-> ~s.iso, value |-> s.t]

-----------------------------------------------------------------------------
(* Store *)

EmptyDoc == [medications |-> <<>>, appointments |-> <<>>]

MissingFile == [kind |-> "missing"]
MalformedFile == [kind |-> "malformed"]
DocFile(d) == [kind |-> "doc", doc |-> d]

\* app.py load_data: the document, and whether st.error was shown
load_data(f) ==
    CASE f.kind = "missing" ->
            [raised |-> FALSE, warned |-> TRUE, value |-> EmptyDoc]
      [] f.kind = "malformed" ->
            [raised |-> FALSE, warned |-> TRUE, value |-> EmptyDoc]
      [] OTHER ->
            [raised |-> FALSE, warned |-> FALSE, value |-> f.doc]

\* pa.py load_data: only FileNotFoundError is caught
pa_load_data(f) ==
    CASE f.kind = "missing" ->
            [raised |-> FALSE, warned |-> FALSE, value |-> EmptyDoc]
      [] f.kind = "malformed" ->
            [raised |-> TRUE, warned |-> FALSE, value |-> EmptyDoc]
      [] OTHER ->
            [raised |-> FALSE, warned |-> FALSE, value |-> f.doc]

\* save_data: the file after json.dump(data, f, indent=4)
save_data(d) == DocFile(d)

-----------------------------------------------------------------------------
(* Validator *)

validate_medication_rate_zero_ok(med) ==
    IF strip(med.name) = <<>>
    THEN <<FALSE, "Medication name cannot be empty">>
    ELSE IF "stock" \in DOMAIN med
    THEN IF med.stock.current_quantity < 0
         THEN <<FALSE, "Current quantity cannot be negative">>
         ELSE IF med.stock.consumption_rate < 0
         THEN <<FALSE, "Consumption rate must be positive">>
         ELSE IF med.stock.alert_threshold < 0
         THEN <<FALSE, "Alert threshold cannot be negative">>
         ELSE <<TRUE, "">>
    ELSE <<TRUE, "">>

validate_medication(med) ==
    IF strip(med.name) = <<>>
    THEN <<FALSE, "Medication name cannot be empty">>
    ELSE IF "stock" \in DOMAIN med
    THEN IF med.stock.current_quantity < 0
         THEN <<FALSE, "Current quantity cannot be negative">>
         ELSE IF med.stock.consumption_rate <= 0
         THEN <<FALSE, "Consumption rate must be positive">>
         ELSE IF med.stock.alert_threshold < 0
         THEN <<FALSE, "Alert threshold cannot be negative">>
         ELSE <<TRUE, "">>
    ELSE <<TRUE, "">>

validate_appointment(appt) ==
    IF fromisoformat(appt.date_time).raised
    THEN <<FALSE, "Invalid date/time format">>
    ELSE <<TRUE, "">>

-----------------------------------------------------------------------------
(* Reminder calculator *)

get_next_reminder_le(med, now) ==
    LET schedule_time == strptime(med.schedule)
        next_reminder == combine(DateOf(now), schedule_time)
    IN  IF next_reminder <= now
        THEN next_reminder + DayMicros
        ELSE next_reminder

\* get_next_reminder, with the value datetime.now() returned as a parameter
get_next_reminder(med, now) ==
    LET schedule_time == strptime(med.schedule)
        next_reminder == combine(DateOf(now), schedule_time)
    IN  IF next_reminder < now
        THEN next_reminder + DayMicros
        ELSE next_reminder

days_until_low_floor(current_quantity, consumption_rate, alert_threshold) ==
    (current_quantity - alert_threshold) \div consumption_rate

\* math.ceil((current_quantity - alert_threshold) / consumption_rate), which
\* the caller evaluates for a positive rate and a positive difference
days_until_low(current_quantity, consumption_rate, alert_threshold) ==
    ((current_quantity - alert_threshold) + consumption_rate - 1)
        \div consumption_rate

-----------------------------------------------------------------------------
(* Calendar builder *)

\* the options of the "Reminder Frequency" selectbox
frequencies == {"daily", "every_other_day", "weekly"}

\* the argument selected_meds: None, or a list of names
None == [none |-> TRUE, names |-> {}]
Selected(names) == [none |-> FALSE, names |-> names]

\* the truth value of selected_meds
Truthy(selected_meds) == ~selected_meds.none /\ selected_meds.names # {}

\* st.session_state.get(f'freq_{name}', "daily")
session_state_get(fq, name) ==
    IF name \in DOMAIN fq THEN fq[name] ELSE "daily"

rrule(frequency) ==
    CASE frequency = "every_other_day" -> [freq |-> "daily", interval |-> 2]
      [] frequency = "weekly" -> [freq |-> "weekly", byday |-> "MO"]
      [] OTHER -> [freq |-> "daily"]

\* the events generate_calendar adds for one medication
MedEvents(med, fq, now) ==
    LET event == [summary |-> <<"Take ">> \o med.name,
                  dtstart |-> get_next_reminder(med, now),
                  rrule |-> rrule(session_state_get(fq, med.name))]
    IN  IF "stock" \in DOMAIN med
           /\ med.stock.consumption_rate > 0
           /\ med.stock.current_quantity > med.stock.alert_threshold
        THEN LET notification_date ==
                     DateOf(now) + days_until_low(med.stock.current_quantity,
                                                  med.stock.consumption_rate,
                                                  med.stock.alert_threshold)
             IN  <<event,
                   [summary |-> <<"Refill ">> \o med.name,
                    dtstart |-> combine(notification_date, 0)]>>
        ELSE <<event>>

\* appt.get('description', default)
get_description(appt, default) ==
    IF "description" \in DOMAIN appt THEN appt.description ELSE default

ApptEvent(appt) ==
    [summary |-> get_description(appt, <<"Doctor Appointment">>),
     dtstart |-> fromisoformat(appt.date_time).value]

RECURSIVE MedsEvents(_, _, _)
MedsEvents(meds, fq, now) ==
    IF meds = <<>>
    THEN <<>>
    ELSE MedEvents(Head(meds), fq, now) \o MedsEvents(Tail(meds), fq, now)

RECURSIVE ApptsEvents(_)
ApptsEvents(appts) ==
    IF appts = <<>>
    THEN <<>>
    ELSE <<ApptEvent(Head(appts))>> \o ApptsEvents(Tail(appts))

generate_calendar_empty_selects_none(d, selected_meds, fq, now) ==
    LET Keep(med) == selected_meds.none \/ med.name \in selected_meds.names
        meds == SelectSeq(d.medications, Keep)
    IN  MedsEvents(meds, fq, now) \o ApptsEvents(d.appointments)

\* generate_calendar: the components of the calendar, in order
generate_calendar(d, selected_meds, fq, now) ==
    LET Keep(med) == ~Truthy(selected_meds) \/ med.name \in selected_meds.names
        meds == SelectSeq(d.medications, Keep)
    IN  MedsEvents(meds, fq, now) \o ApptsEvents(d.appointments)

-----------------------------------------------------------------------------
(* Direct calls of the functions, on inputs drawn from bounded sets *)

Chunks == {" ", "A"}
Texts(n) == UNION {[1..k -> Chunks] : k \in 0..n}
Quantities == -1..MaxQty
Schedules == 0..(SecondsPerDay - 1)
Nows == {combine(d, t) : d \in 0..MaxDay, t \in 0..(DayMicros - 1)}

Stock(q, r, a) ==
    [current_quantity |-> q, consumption_rate |-> r, alert_threshold |-> a]

StockGrid ==
    {Stock(q, r, a) : q \in Quantities, r \in Quantities, a \in Quantities}

Med(name, schedule) == [name |-> name, schedule |-> schedule]
StockedMed(name, schedule, stock) ==
    [name |-> name, schedule |-> schedule, stock |-> stock]

\* the medications handed to validate_medication
ValidatorMeds ==
    {Med(n, 0) : n \in Texts(MaxNameLen)}
        \cup {StockedMed(n, 0, st) : n \in Texts(MaxNameLen), st \in StockGrid}

SeqsUpTo(S, n) == UNION {[1..k -> S] : k \in 0..n}

\* documents with one medication and every stock, among them the stock of
\* the specification's example
StockDocs ==
    {[medications |-> <<m>>, appointments |-> <<>>] :
        m \in {Med(<<"A">>, s) : s \in Schedules}
              \cup {StockedMed(<<"A">>, s, st) :
                        s \in Schedules,
                        st \in StockGrid \cup {Stock(30, 5, 10)}}}

SampleMeds ==
    {Med(n, 0) : n \in {<<"A">>, <<"B">>}}
        \cup {StockedMed(n, 0, Stock(2, 1, 0)) : n \in {<<"A">>, <<"B">>}}

SampleAppts ==
    {[date_time |-> isoformat(combine(1, 1))],
     [date_time |-> isoformat(combine(1, 1)), description |-> <<>>],
     [date_time |-> isoformat(combine(0, 1)), description |-> <<"Checkup">>]}

\* documents with several medications and appointments
ListDocs ==
    {[medications |-> ms, appointments |-> as] :
        ms \in SeqsUpTo(SampleMeds, MaxMeds),
        as \in SeqsUpTo(SampleAppts, MaxAppts)}

Selections == {None} \cup {Selected(ns) : ns \in SUBSET {<<"A">>, <<"B">>}}

SampleFreqs ==
    {<<>>,
     (<<"A">> :> "weekly"),
     (<<"A">> :> "every_other_day") @@ (<<"B">> :> "daily")}

Files ==
    {MissingFile, MalformedFile}
        \cup {DocFile(d) : d \in {EmptyDoc} \cup StockDocs}

NoCall == [op |-> "none", done |-> TRUE]

\* the calls to make: the function and its arguments
Requests ==
    {[op |-> "validate_medication", done |-> FALSE, med |-> med] :
        med \in ValidatorMeds}
    \cup {[op |-> "get_next_reminder", done |-> FALSE,
           med |-> Med(<<"A">>, schedule), now |-> now] :
             schedule \in Schedules, now \in Nows}
    \cup {[op |-> "generate_calendar", done |-> FALSE, data |-> d,
           selected_meds |-> None, freq |-> <<>>, now |-> now] :
             d \in StockDocs, now \in Nows}
    \cup {[op |-> "generate_calendar", done |-> FALSE, data |-> d,
           selected_meds |-> sel, freq |-> fq, now |-> now] :
             d \in ListDocs, sel \in Selections, fq \in SampleFreqs,
             now \in {combine(0, 1)}}
    \cup {[op |-> o, done |-> FALSE, file |-> f] :
             o \in {"load_data", "pa_load_data"}, f \in Files}

Return(result) == [call EXCEPT !.done = TRUE] @@ [result |-> result]

CallValidateMedication ==
    /\ call.op = "validate_medication" /\ ~call.done
    /\ call' = Return(validate_medication(call.med))
    /\ UNCHANGED <<started, page, data, file, freq, uploaded, outcome, out>>

CallGetNextReminder ==
    /\ call.op = "get_next_reminder" /\ ~call.done
    /\ call' = Return(get_next_reminder(call.med, call.now))
    /\ UNCHANGED <<started, page, data, file, freq, uploaded, outcome, out>>

CallGenerateCalendar ==
    /\ call.op = "generate_calendar" /\ ~call.done
    /\ call' = Return(generate_calendar(call.data, call.selected_meds,
                                        call.freq, call.now))
    /\ UNCHANGED <<started, page, data, file, freq, uploaded, outcome, out>>

CallLoadData ==
    /\ call.op = "load_data" /\ ~call.done
    /\ call' = Return(load_data(call.file))
    /\ UNCHANGED <<started, page, data, file, freq, uploaded, outcome, out>>

CallPaLoadData ==
    /\ call.op = "pa_load_data" /\ ~call.done
    /\ call' = Return(pa_load_data(call.file))
    /\ UNCHANGED <<started, page, data, file, freq, uploaded, outcome, out>>

NoOutput == [kind |-> "none"]
NoUpload == [kind |-> "none"]

FnInit ==
    /\ started = FALSE
    /\ page = "Home"
    /\ data = EmptyDoc
    /\ file = MissingFile
    /\ freq = <<>>
    /\ uploaded = NoUpload
    /\ outcome = "none"
    /\ out = NoOutput
    /\ call \in Requests

FnNext ==
    \/ CallValidateMedication
    \/ CallGetNextReminder
    \/ CallGenerateCalendar
    \/ CallLoadData
    \/ CallPaLoadData

FnSpec == FnInit /\ [][FnNext]_vars

-----------------------------------------------------------------------------
(* The pages of the script.  Each takes the document and the one thing the *)
(* user did to start this run (ev), and gives the document after the page, *)
(* what it showed, and how it ended: "completed", "stopped" (st.stop()) or  *)
(* "raised" (an exception no handler of the script catches).               *)

NoEvent == [kind |-> "none", idx |-> 0]

Without(rec, key) == [k \in DOMAIN rec \ {key} |-> rec[k]]
RemoveAt(s, i) == SubSeq(s, 1, i - 1) \o SubSeq(s, i + 1, Len(s))

\* the value a widget of the record at position i returns: what the user
\* just entered there, or else the value the record holds
Widget(ev, kind, i, held) ==
    IF ev.kind = kind /\ ev.idx = i THEN ev.value ELSE held

Clicked(ev, kind, i) == ev.kind = kind /\ ev.idx = i

\* Home: upcoming_events, in the order they are appended
RECURSIVE HomeMedEvents(_, _)
HomeMedEvents(meds, now) ==
    IF meds = <<>>
    THEN <<>>
    ELSE LET med == Head(meds)
             take == [start_time |-> get_next_reminder(med, now),
                      summary |-> <<"Take ">> \o med.name]
             refill ==
                 IF "stock" \in DOMAIN med
                    /\ med.stock.consumption_rate > 0
                    /\ med.stock.current_quantity > med.stock.alert_threshold
                 THEN <<[start_time |->
                            combine(DateOf(now)
                                    + days_until_low(med.stock.current_quantity,
                                                     med.stock.consumption_rate,
                                                     med.stock.alert_threshold),
                                    0),
                         summary |-> <<"Refill ">> \o med.name]>>
                 ELSE <<>>
         IN  <<take>> \o refill \o HomeMedEvents(Tail(meds), now)

RECURSIVE HomeApptEvents(_)
HomeApptEvents(appts) ==
    IF appts = <<>>
    THEN <<>>
    ELSE <<[start_time |-> fromisoformat(Head(appts).date_time).value,
            summary |-> get_description(Head(appts), <<"Doctor Appointment">>)]>>
             \o HomeApptEvents(Tail(appts))

\* some date_time of the appointments makes datetime.fromisoformat raise
SomeDateTimeRaises(appts) ==
    \E i \in DOMAIN appts : fromisoformat(appts[i].date_time).raised

\* upcoming_events.sort(key=start_time)[0]: the first of the earliest
HomePage(d, now) ==
    IF SomeDateTimeRaises(d.appointments)
    THEN [data |-> d, out |-> NoOutput, outcome |-> "raised"]
    ELSE LET upcoming_events == HomeMedEvents(d.medications, now)
                                    \o HomeApptEvents(d.appointments)
             first == CHOOSE i \in DOMAIN upcoming_events :
                         \A j \in DOMAIN upcoming_events :
                             \/ upcoming_events[i].start_time
                                    < upcoming_events[j].start_time
                             \/ /\ upcoming_events[i].start_time
                                       = upcoming_events[j].start_time
                                /\ i <= j
         IN  [data |-> d,
              out |-> [kind |-> "home",
                       shown |-> IF upcoming_events = <<>>
                                 THEN <<>>
                                 ELSE <<upcoming_events[first]>>],
              outcome |-> "completed"]

ZeroStock == [current_quantity |-> 0, consumption_rate |-> 0, alert_threshold |-> 0]

\* Medications: the loop over enumerate(medications), from position i on.
\* The number inputs of the stock are read and never stored.
RECURSIVE MedicationsLoop(_, _, _, _)
MedicationsLoop(meds, fq, i, ev) ==
    IF i > Len(meds)
    THEN [medications |-> meds, freq |-> fq]
    ELSE LET med == meds[i]
             new_name == Widget(ev, "name", i, med.name)
             schedule_time == Widget(ev, "schedule", i, strptime(med.schedule))
             frequency == Widget(ev, "frequency", i,
                                 session_state_get(fq, med.name))
             fq1 == (med.name :> frequency) @@ fq
             med1 == IF "stock" \in DOMAIN med
                     THEN IF Clicked(ev, "remove_stock", i)
                          THEN Without(med, "stock")
                          ELSE med
                     ELSE IF Clicked(ev, "add_stock", i)
                          THEN med @@ [stock |-> ZeroStock]
                          ELSE med
             med2 == [med1 EXCEPT !.name = new_name,
                                  !.schedule = strftime(schedule_time)]
             meds1 == IF Clicked(ev, "delete_med", i)
                      THEN RemoveAt(meds, i)
                      ELSE [meds EXCEPT ![i] = med2]
         IN  MedicationsLoop(meds1, fq1, i + 1, ev)

\* has_errors of the Save Changes handlers
MedicationsHaveErrors(meds) ==
    \E i \in DOMAIN meds : ~validate_medication(meds[i])[1]

AppointmentsHaveErrors(appts) ==
    \E i \in DOMAIN appts : ~validate_appointment(appts[i])[1]

MedicationsPage(d, fq, ev) ==
    LET loop == MedicationsLoop(d.medications, fq, 1, ev)
        meds == IF ev.kind = "add_new_med"
                THEN Append(loop.medications, [name |-> <<>>, schedule |-> 0])
                ELSE loop.medications
    IN  [data |-> [d EXCEPT !.medications = meds],
         freq |-> loop.freq,
         out |-> IF ev.kind = "save_meds"
                 THEN [kind |-> "save",
                       saved |-> ~MedicationsHaveErrors(meds)]
                 ELSE NoOutput,
         outcome |-> "completed"]

\* Doctor Appointments: the loop over enumerate(appointments), from i on
RECURSIVE AppointmentsLoop(_, _, _)
AppointmentsLoop(appts, i, ev) ==
    IF i > Len(appts)
    THEN [appointments |-> appts, raised |-> FALSE]
    ELSE LET appt == appts[i]
             parsed == fromisoformat(appt.date_time)
             date_input == Widget(ev, "date", i, DateOf(parsed.value))
             time_input == Widget(ev, "time", i, TimeOf(parsed.value))
             description == Widget(ev, "description", i,
                                   get_description(appt, <<>>))
             appt1 == [date_time |-> isoformat(combine(date_input, time_input)),
                       description |-> description]
             appts1 == IF Clicked(ev, "delete_appt", i)
                       THEN RemoveAt(appts, i)
                       ELSE [appts EXCEPT ![i] = appt1]
         IN  IF parsed.raised
             THEN [appointments |-> appts, raised |-> TRUE]
             ELSE AppointmentsLoop(appts1, i + 1, ev)

AppointmentsPage(d, ev, now) ==
    LET loop == AppointmentsLoop(d.appointments, 1, ev)
        appts == IF ev.kind = "add_new_appt"
                 THEN Append(loop.appointments,
                             [date_time |-> isoformat(now), description |-> <<>>])
                 ELSE loop.appointments
    IN  IF loop.raised
        THEN [data |-> [d EXCEPT !.appointments = loop.appointments],
              out |-> NoOutput, outcome |-> "raised"]
        ELSE [data |-> [d EXCEPT !.appointments = appts],
              out |-> IF ev.kind = "save_appts"
                      THEN [kind |-> "save",
                            saved |-> ~AppointmentsHaveErrors(appts)]
                      ELSE NoOutput,
              outcome |-> "completed"]

\* Generate Calendar: the multiselect gives a list of names, empty at first
GenerateCalendarPage(d, fq, ev, now) ==
    IF ev.kind # "generate"
    THEN [data |-> d, out |-> NoOutput, outcome |-> "completed"]
    ELSE IF SomeDateTimeRaises(d.appointments)
    THEN [data |-> d, out |-> NoOutput, outcome |-> "raised"]
    ELSE [data |-> d,
          out |-> [kind |-> "calendar",
                   events |-> generate_calendar(d, Selected(ev.value), fq, now)],
          outcome |-> "completed"]

\* what json.load gives for an upload: a dict or another value
IsDict(upload) == upload.isdict

ShapeIsBad(upload) ==
    \/ ~IsDict(upload)
    \/ "medications" \notin DOMAIN upload.value
    \/ "appointments" \notin DOMAIN upload.value

ImportHandlerStopsNowhere(d, upload) ==
    CASE upload.kind = "none" ->
            [data |-> d, out |-> NoOutput, outcome |-> "completed"]
      [] upload.kind = "malformed" ->
            [data |-> d,
             out |-> [kind |-> "error", text |-> "Invalid JSON file format"],
             outcome |-> "completed"]
      [] ShapeIsBad(upload) ->
            [data |-> d,
             out |-> [kind |-> "error", text |-> "Error importing data"],
             outcome |-> "completed"]
      [] OTHER ->
            [data |-> upload.value,
             out |-> [kind |-> "toast", text |-> "Data imported successfully"],
             outcome |-> "completed"]

\* Export/Import, the import handler.  json.JSONDecodeError is caught and
\* the script goes on; once json.load has succeeded, the st.stop() of line
\* 241 stands after the if, not in it, and ends the run whatever the shape:
\* the loops over the records and the assignment of lines 242-254 never run.
ImportHandler(d, upload) ==
    CASE upload.kind = "none" ->
            [data |-> d, out |-> NoOutput, outcome |-> "completed"]
      [] upload.kind = "malformed" ->
            [data |-> d,
             out |-> [kind |-> "error", text |-> "Invalid JSON file format"],
             outcome |-> "completed"]
      [] OTHER ->
            [data |-> d,
             out |-> IF ShapeIsBad(upload)
                     THEN [kind |-> "error", text |-> "Invalid data format"]
                     ELSE NoOutput,
             outcome |-> "stopped"]

\* Export/Import: the Export Data button, then the import handler; out is
\* the last thing the run showed
ExportImportPage(d, ev, upload) ==
    LET import == ImportHandler(d, upload)
    IN  IF ev.kind = "export" /\ import.out = NoOutput
        THEN [import EXCEPT !.out = [kind |-> "toast",
                                     text |-> "Data exported successfully"]]
        ELSE import

Pages ==
    {"Home", "Medications", "Doctor Appointments", "Generate Calendar", "Help",
     "Export/Import"}

\* the body of the script for the selected page
SelectedPage(d, fq, pg, ev, upload, now) ==
    CASE pg = "Home" -> HomePage(d, now) @@ [freq |-> fq]
      [] pg = "Medications" -> MedicationsPage(d, fq, ev)
      [] pg = "Doctor Appointments" -> AppointmentsPage(d, ev, now) @@ [freq |-> fq]
      [] pg = "Generate Calendar" ->
            GenerateCalendarPage(d, fq, ev, now) @@ [freq |-> fq]
      [] pg = "Export/Import" -> ExportImportPage(d, ev, upload) @@ [freq |-> fq]
      [] OTHER -> [data |-> d, freq |-> fq, out |-> NoOutput,
                   outcome |-> "completed"]

-----------------------------------------------------------------------------
(* The session: one action per thing the user does, each a whole run of    *)
(* the script from line 99 to line 274.                                    *)

\* what the user types, picks and uploads in this model
NameInputs == {<<>>, <<"A">>}
ScheduleInputs == {strptime(0), strptime(1)}
FrequencyInputs == frequencies
DateInputs == {0, 1}
DescriptionInputs == {<<>>, <<"Checkup">>}
ClockReadings == {combine(0, 1)}

SeedDoc ==
    [medications |-> <<StockedMed(<<"A">>, 0, Stock(2, 1, 0))>>,
     appointments |-> <<[date_time |-> isoformat(combine(1, 1))]>>]

\* a document edited by hand, with a date_time that does not parse
BrokenDoc ==
    [medications |-> <<>>,
     appointments |-> <<[date_time |-> isoformat(combine(1, 1))],
                        [date_time |-> InvalidDateTime]>>]

\* the file the session starts from: none, not JSON, or a document
InitialFiles ==
    {MissingFile, MalformedFile, DocFile(EmptyDoc), DocFile(SeedDoc),
     DocFile(BrokenDoc)}

JsonUpload(isdict, value) == [kind |-> "json", isdict |-> isdict, value |-> value]

Uploads ==
    {[kind |-> "malformed"],
     JsonUpload(FALSE, EmptyDoc),
     JsonUpload(TRUE, [medications |-> <<>>]),
     JsonUpload(TRUE, [EmptyDoc EXCEPT !.medications = <<Med(<<" ">>, 0)>>]),
     JsonUpload(TRUE, [EmptyDoc EXCEPT !.appointments =
                          <<[date_time |-> InvalidDateTime,
                             description |-> <<>>]>>]),
     JsonUpload(TRUE, [EmptyDoc EXCEPT !.medications = <<Med(<<"B">>, 1)>>])}

\* one run of the script: session_state.data is loaded on the first run, the
\* selected page runs, and line 274 saves unless the page ended the run
RunScript(pg, ev, upload, now) ==
    LET d == IF started THEN data ELSE load_data(file).value
        r == SelectedPage(d, freq, pg, ev, upload, now)
    IN  /\ started' = TRUE
        /\ page' = pg
        /\ data' = r.data
        /\ freq' = r.freq
        /\ uploaded' = upload
        /\ out' = r.out
        /\ outcome' = r.outcome
        /\ file' = IF r.outcome = "completed" THEN save_data(r.data) ELSE file
        /\ UNCHANGED call

Event(kind, i) == [kind |-> kind, idx |-> i]
Entry(kind, i, value) == [kind |-> kind, idx |-> i, value |-> value]

On(pg) == started /\ page = pg

SessionStart ==
    /\ ~started
    /\ \E now \in ClockReadings :
          RunScript("Home", NoEvent, NoUpload, now)

Navigate ==
    /\ started
    /\ \E pg \in Pages \ {page}, now \in ClockReadings :
          RunScript(pg, NoEvent, NoUpload, now)

EditMedicationName ==
    /\ On("Medications")
    /\ \E i \in DOMAIN data.medications, name \in NameInputs, now \in ClockReadings :
          /\ name # data.medications[i].name
          /\ RunScript(page, Entry("name", i, name),
                       NoUpload, now)

EditMedicationSchedule ==
    /\ On("Medications")
    /\ \E i \in DOMAIN data.medications, t \in ScheduleInputs, now \in ClockReadings :
          /\ t # strptime(data.medications[i].schedule)
          /\ RunScript(page, Entry("schedule", i, t),
                       NoUpload, now)

\* the user picks frequency f in the selectbox of the medication at i
SelectFrequencyAt(i, f) ==
    /\ On("Medications")
    /\ \E now \in ClockReadings :
          RunScript(page, Entry("frequency", i, f), NoUpload, now)

SelectFrequency ==
    \E i \in DOMAIN data.medications, f \in FrequencyInputs :
        SelectFrequencyAt(i, f)

AddStockInformation ==
    /\ On("Medications")
    /\ \E i \in DOMAIN data.medications, now \in ClockReadings :
          /\ "stock" \notin DOMAIN data.medications[i]
          /\ RunScript(page, Event("add_stock", i),
                       NoUpload, now)

RemoveStockInformation ==
    /\ On("Medications")
    /\ \E i \in DOMAIN data.medications, now \in ClockReadings :
          /\ "stock" \in DOMAIN data.medications[i]
          /\ RunScript(page, Event("remove_stock", i),
                       NoUpload, now)

DeleteMedication ==
    /\ On("Medications")
    /\ \E i \in DOMAIN data.medications, now \in ClockReadings :
          RunScript(page, Event("delete_med", i),
                    NoUpload, now)

AddNewMedication ==
    /\ On("Medications")
    /\ Len(data.medications) + Len(data.appointments) < MaxRecords
    /\ \E now \in ClockReadings :
          RunScript(page, Event("add_new_med", 0),
                    NoUpload, now)

SaveMedications ==
    /\ On("Medications")
    /\ \E now \in ClockReadings :
          RunScript(page, Event("save_meds", 0),
                    NoUpload, now)

\* the widgets of the appointment at i are on the page: the loop got to it
Rendered(i) ==
    \A k \in 1..i : ~fromisoformat(data.appointments[k].date_time).raised

EditAppointmentDate ==
    /\ On("Doctor Appointments")
    /\ \E i \in DOMAIN data.appointments, date \in DateInputs, now \in ClockReadings :
          /\ Rendered(i)
          /\ date # DateOf(fromisoformat(data.appointments[i].date_time).value)
          /\ RunScript(page, Entry("date", i, date),
                       NoUpload, now)

EditAppointmentDescription ==
    /\ On("Doctor Appointments")
    /\ \E i \in DOMAIN data.appointments, text \in DescriptionInputs,
          now \in ClockReadings :
          /\ Rendered(i)
          /\ text # get_description(data.appointments[i], <<>>)
          /\ RunScript(page,
                       Entry("description", i, text), NoUpload, now)

DeleteAppointment ==
    /\ On("Doctor Appointments")
    /\ \E i \in DOMAIN data.appointments, now \in ClockReadings :
          /\ Rendered(i)
          /\ RunScript(page, Event("delete_appt", i),
                       NoUpload, now)

AddNewAppointment ==
    /\ On("Doctor Appointments")
    /\ ~SomeDateTimeRaises(data.appointments)
    /\ Len(data.medications) + Len(data.appointments) < MaxRecords
    /\ \E now \in ClockReadings :
          RunScript(page, Event("add_new_appt", 0),
                    NoUpload, now)

SaveAppointments ==
    /\ On("Doctor Appointments")
    /\ ~SomeDateTimeRaises(data.appointments)
    /\ \E now \in ClockReadings :
          RunScript(page, Event("save_appts", 0),
                    NoUpload, now)

GenerateAndDownload ==
    /\ On("Generate Calendar")
    /\ \E selected \in SUBSET {data.medications[i].name : i \in DOMAIN data.medications},
          now \in ClockReadings :
          RunScript(page, Entry("generate", 0, selected),
                    NoUpload, now)

ExportData ==
    /\ On("Export/Import")
    /\ \E now \in ClockReadings :
          RunScript(page, Event("export", 0), uploaded, now)

ImportData ==
    /\ On("Export/Import")
    /\ \E upload \in Uploads, now \in ClockReadings :
          RunScript(page, NoEvent, upload, now)

Init ==
    /\ started = FALSE
    /\ page = "Home"
    /\ data = EmptyDoc
    /\ file \in InitialFiles
    /\ freq = <<>>
    /\ uploaded = NoUpload
    /\ outcome = "none"
    /\ out = NoOutput
    /\ call = NoCall

Next ==
    \/ SessionStart
    \/ Navigate
    \/ EditMedicationName
    \/ EditMedicationSchedule
    \/ SelectFrequency
    \/ AddStockInformation
    \/ RemoveStockInformation
    \/ DeleteMedication
    \/ AddNewMedication
    \/ SaveMedications
    \/ EditAppointmentDate
    \/ EditAppointmentDescription
    \/ DeleteAppointment
    \/ AddNewAppointment
    \/ SaveAppointments
    \/ GenerateAndDownload
    \/ ExportData
    \/ ImportData

Spec == Init /\ [][Next]_vars

-----------------------------------------------------------------------------
(* Properties of the functions, checked under FnSpec *)

Returned(op) == call.op = op /\ call.done

\* C4: load never raises: on a missing file or one holding malformed JSON
\* every load_data of the repository returns the empty document.
C4_LoadNeverRaises ==
    \A op \in {"load_data", "pa_load_data"} :
        (Returned(op) /\ call.file.kind \in {"missing", "malformed"})
            => (~call.result.raised /\ call.result.value = EmptyDoc)

NameIsBlank(name) == \A i \in 1..Len(name) : name[i] \in Whitespace

HasStock(med) == "stock" \in DOMAIN med

\* the conditions of the validator, in the order name, current_quantity,
\* consumption_rate, alert_threshold, each with its message
MedicationChecks(med) ==
    <<  <<NameIsBlank(med.name), "Medication name cannot be empty">>,
        <<HasStock(med) /\ med.stock.current_quantity < 0,
          "Current quantity cannot be negative">>,
        <<HasStock(med) /\ med.stock.consumption_rate <= 0,
          "Consumption rate must be positive">>,
        <<HasStock(med) /\ med.stock.alert_threshold < 0,
          "Alert threshold cannot be negative">>  >>

FirstFailure(med) ==
    LET checks == MedicationChecks(med)
        failing == {i \in DOMAIN checks : checks[i][1]}
    IN  IF failing = {}
        THEN <<TRUE, "">>
        ELSE <<FALSE,
               checks[CHOOSE i \in failing : \A j \in failing : i <= j][2]>>

MedicationIsSound(med) ==
    /\ ~NameIsBlank(med.name)
    /\ HasStock(med) =>
          /\ med.stock.current_quantity >= 0
          /\ med.stock.consumption_rate > 0
          /\ med.stock.alert_threshold >= 0

\* C6: validate_medication returns (True, "") exactly when the name is not
\* blank and a present stock has current_quantity >= 0, consumption_rate > 0
\* and alert_threshold >= 0; otherwise (False, m), m the message of the first
\* failing condition in the order name, quantity, rate, threshold.
C6_ValidateMedication ==
    Returned("validate_medication") =>
        /\ (call.result = <<TRUE, "">>) <=> MedicationIsSound(call.med)
        /\ call.result = FirstFailure(call.med)
        /\ call.med.name = <<>> =>
              call.result = <<FALSE, "Medication name cannot be empty">>

C6_Witness ==
    /\ Returned("validate_medication")
    /\ ~NameIsBlank(call.med.name)
    /\ HasStock(call.med)
    /\ call.med.stock.current_quantity >= 0
    /\ call.med.stock.consumption_rate = 0
    /\ call.med.stock.alert_threshold < 0
    /\ call.result = <<FALSE, "Consumption rate must be positive">>

\* C5: next_reminder has the time of day of the schedule, on the date of now
\* when the schedule time is not before the time of day of now and on the
\* following day otherwise; so now <= result < now + 1 day.
C5_NextReminder ==
    Returned("get_next_reminder") =>
        LET schedule_time == call.med.schedule * MicrosPerSecond
            today == call.now \div DayMicros
            time_of_now == call.now % DayMicros
        IN  /\ call.result % DayMicros = schedule_time
            /\ call.result \div DayMicros =
                  IF schedule_time >= time_of_now THEN today ELSE today + 1
            /\ call.now <= call.result
            /\ call.result < call.now + DayMicros

C5_Witness ==
    /\ Returned("get_next_reminder")
    /\ call.med.schedule * MicrosPerSecond < call.now % DayMicros
    /\ call.result \div DayMicros = (call.now \div DayMicros) + 1

IsTake(e) == Len(e.summary) > 0 /\ Head(e.summary) = "Take "
IsRefill(e) == Len(e.summary) > 0 /\ Head(e.summary) = "Refill "

\* the names of the medications, in order
RECURSIVE NamesOf(_)
NamesOf(meds) ==
    IF meds = <<>> THEN <<>> ELSE <<Head(meds).name>> \o NamesOf(Tail(meds))

\* the names the "Take" events of a calendar carry, in order
RECURSIVE TakeNames(_)
TakeNames(events) ==
    IF events = <<>>
    THEN <<>>
    ELSE (IF IsTake(Head(events)) THEN <<Tail(Head(events).summary)>> ELSE <<>>)
             \o TakeNames(Tail(events))

\* the medications a selection asks for: read to the letter, and with an
\* empty selection read as no selection
AskedFor(meds, sel) ==
    LET Asked(med) == sel.none \/ med.name \in sel.names
    IN  SelectSeq(meds, Asked)

Included(meds, sel) ==
    LET In(med) == sel.none \/ sel.names = {} \/ med.name \in sel.names
    IN  SelectSeq(meds, In)

\* the appointments come last, one event each, in order
AppointmentsLast(events, appts) ==
    LET k == Len(events) - Len(appts)
    IN  /\ k >= 0
        /\ \A i \in 1..k : IsTake(events[i]) \/ IsRefill(events[i])
        /\ \A i \in 1..Len(appts) :
              /\ ~IsTake(events[k + i]) /\ ~IsRefill(events[k + i])
              /\ events[k + i].dtstart = appts[i].date_time.t

\* C7 as stated: one "Take" event per medication whose name is in selected,
\* or per medication when selected is unspecified, in input order; one event
\* per appointment whatever the selection, after the medications.
C7_AsStated ==
    Returned("generate_calendar") =>
        /\ TakeNames(call.result)
              = NamesOf(AskedFor(call.data.medications, call.selected_meds))
        /\ AppointmentsLast(call.result, call.data.appointments)

\* C7 (amended): one "Take" event per medication whose name is in selected,
\* or per medication when selected is unspecified or empty, in input order;
\* one event per appointment whatever the selection, after the medications.
C7_Generate ==
    Returned("generate_calendar") =>
        /\ TakeNames(call.result)
              = NamesOf(Included(call.data.medications, call.selected_meds))
        /\ AppointmentsLast(call.result, call.data.appointments)

C7_Witness ==
    /\ Returned("generate_calendar")
    /\ NamesOf(call.data.medications) = <<<<"A">>, <<"B">>>>
    /\ call.selected_meds = Selected({<<"B">>})
    /\ Len(call.data.appointments) = 1
    /\ TakeNames(call.result) = <<<<"B">>>>

RefillDue(med) ==
    /\ HasStock(med)
    /\ med.stock.consumption_rate > 0
    /\ med.stock.current_quantity > med.stock.alert_threshold

\* the least number of days after which the stock is at the threshold
LeastDays(st) ==
    LET Low(d) ==
            st.current_quantity - d * st.consumption_rate <= st.alert_threshold
    IN  CHOOSE d \in 0..(st.current_quantity - st.alert_threshold) :
            Low(d) /\ \A e \in 0..(d - 1) : ~Low(e)

\* the "Refill" events expected of the medications, in order
RECURSIVE ExpectedRefills(_, _)
ExpectedRefills(meds, today) ==
    IF meds = <<>>
    THEN <<>>
    ELSE (IF RefillDue(Head(meds))
          THEN <<[summary |-> <<"Refill ">> \o Head(meds).name,
                  dtstart |-> (today + LeastDays(Head(meds).stock)) * DayMicros]>>
          ELSE <<>>)
             \o ExpectedRefills(Tail(meds), today)

\* C8: an included medication gets exactly one non-recurring "Refill" event
\* when its stock is present with consumption_rate > 0 and current_quantity >
\* alert_threshold, and none otherwise, dated today + d, d >= 1 the least
\* number of days after which the stock is at or under the threshold
\* (30, 10, 5 gives 4).
C8_Refill ==
    Returned("generate_calendar") =>
        LET meds == Included(call.data.medications, call.selected_meds)
            today == call.now \div DayMicros
        IN  /\ SelectSeq(call.result, IsRefill) = ExpectedRefills(meds, today)
            /\ \A i \in DOMAIN meds :
                  RefillDue(meds[i]) =>
                      /\ LeastDays(meds[i].stock) >= 1
                      /\ meds[i].stock = Stock(30, 5, 10) =>
                            LeastDays(meds[i].stock) = 4

C8_Witness ==
    /\ Returned("generate_calendar")
    /\ Len(call.data.medications) = 1
    /\ HasStock(call.data.medications[1])
    /\ call.data.medications[1].stock = Stock(30, 5, 10)
    /\ \E i \in DOMAIN call.result :
          /\ IsRefill(call.result[i])
          /\ call.result[i].dtstart = ((call.now \div DayMicros) + 4) * DayMicros

-----------------------------------------------------------------------------
(* Properties of the session, checked under Spec *)

AllPass(d) ==
    /\ \A i \in DOMAIN d.medications : validate_medication(d.medications[i])[1]
    /\ \A i \in DOMAIN d.appointments : validate_appointment(d.appointments[i])[1]

\* C1: validation gates every persist: once the persisted document holds
\* only records that pass validation, no user action and no completed run
\* leaves in the file a medication that fails validate_medication or an
\* appointment that fails validate_appointment.
C1_PersistedRecordsPass ==
    [][(file.kind = "doc" /\ AllPass(file.doc) /\ file'.kind = "doc")
           => AllPass(file'.doc)]_vars

\* the upload is one the import is to reject: not JSON, without one of the
\* top-level keys, or with a record that fails its validator
RejectedUpload(upload) ==
    /\ upload.kind # "none"
    /\ \/ upload.kind = "malformed"
       \/ ~upload.isdict
       \/ "medications" \notin DOMAIN upload.value
       \/ "appointments" \notin DOMAIN upload.value
       \/ ~AllPass(upload.value)

AcceptedUpload(upload) == upload.kind # "none" /\ ~RejectedUpload(upload)

\* C2: a rejected import applies nothing: a run of the Export/Import page
\* with a rejected upload leaves the document in memory and the persisted
\* file exactly as they were.
C2_RejectedImportAppliesNothing ==
    [][(page' = "Export/Import" /\ RejectedUpload(uploaded'))
           => (data' = data /\ file' = file)]_vars

C2_Witness ==
    /\ On("Export/Import")
    /\ uploaded.kind = "json"
    /\ ~ShapeIsBad(uploaded)
    /\ ~AllPass(uploaded.value)
    /\ data.medications # <<>>
    /\ file = DocFile(data)

\* C3: an accepted import is applied: with an upload that has both keys and
\* only passing records the import runs to completion, the document in
\* memory becomes the uploaded one and it is written to the file.
C3_AcceptedImportApplied ==
    (On("Export/Import") /\ AcceptedUpload(uploaded))
        => /\ outcome = "completed"
           /\ data = uploaded.value
           /\ file = DocFile(uploaded.value)

IsBlank(appt) == "description" \notin DOMAIN appt \/ appt.description = <<>>

Title(appt) ==
    IF IsBlank(appt) THEN <<"Doctor Appointment">> ELSE appt.description

\* C9: an appointment whose description is blank (empty or absent) is in the
\* calendar and in the Home summary under the title "Doctor Appointment",
\* and one with a description under that description.
C9_AppointmentTitle ==
    /\ out.kind = "calendar" =>
          LET k == Len(out.events) - Len(data.appointments)
          IN  \A i \in DOMAIN data.appointments :
                  out.events[k + i].summary = Title(data.appointments[i])
    /\ (out.kind = "home" /\ out.shown # <<>>) =>
          \/ IsTake(out.shown[1])
          \/ IsRefill(out.shown[1])
          \/ \E i \in DOMAIN data.appointments :
                 out.shown[1].summary = Title(data.appointments[i])

\* the rule generate_calendar gives the "Take" event of the medication at j
TakeRule(d, fq, j) == rrule(session_state_get(fq, d.medications[j].name))

RuleFor(f) ==
    CASE f = "every_other_day" -> [freq |-> "daily", interval |-> 2]
      [] f = "weekly" -> [freq |-> "weekly", byday |-> "MO"]
      [] OTHER -> [freq |-> "daily"]

\* C10: the "Take" event of a medication carries the rule of the frequency
\* configured for it, and configuring the frequency of one medication does
\* not change the rule of another medication of the document.
C10_FrequencyPerMedication ==
    [][\A i \in DOMAIN data.medications, f \in FrequencyInputs :
           SelectFrequencyAt(i, f) =>
               /\ TakeRule(data', freq', i) = RuleFor(f)
               /\ \A j \in DOMAIN data.medications \ {i} :
                      TakeRule(data', freq', j) = TakeRule(data, freq, j)]_vars

====
